---- MODULE Spec2Model ----
(***************************************************************************)
(* Model of the Ripedly backend (src/app.py): the /api/trim request        *)
(* handler, the stream selector get_enhanced_streams, the trim executor    *)
(* trim_video_with_perfect_sync and the deferred file deletion.            *)
(*                                                                         *)
(* Strings the code inspects character by character (time strings) are     *)
(* tuples of one-character strings.  Text the code only searches for       *)
(* keywords (exception messages, ffmpeg's stderr) is a tuple of words.     *)
(* Python's None is the string "None" where the value is otherwise a       *)
(* tuple or a string, and a tagged record where it is otherwise a number.  *)
(*                                                                         *)
(* In src/app.py the body of get_enhanced_streams from line 512 on is      *)
(* indented one level deeper than line 511, which Python rejects           *)
(* (IndentationError).  The model reads lines 511-611 as the straight      *)
(* continuation of the function, which is what the statements say.         *)
(*                                                                         *)
(* The specifications share the actions:                                   *)
(*   Spec      one request through the whole handler;                      *)
(*   SpecSel   get_enhanced_streams on every list of at most MaxFormats    *)
(*             candidates;                                                 *)
(*   SpecConc  NumReqs requests at once on the shared scratch directory;   *)
(*   SpecParse convert_to_seconds_enhanced on time strings of at most      *)
(*             MaxFields fields;                                           *)
(*   SpecPair  two executions of one request that differ in the texts of   *)
(*             the exceptions and of stderr;                               *)
(*   SpecLive  one request in a worker process, with fairness;             *)
(*   SpecProbe the probes of get_enhanced_streams on up to MaxPerKind      *)
(*             candidates of each kind;                                    *)
(*   SpecTerm  one request with every outcome of every external call,      *)
(*             with fairness of the handler and of the deletion thread.    *)
(***************************************************************************)
EXTENDS Integers, Sequences, FiniteSets, TLC

VARIABLES req, hist, files, timers

vars == <<req, hist, files, timers>>

----------------------------------------------------------------------------
(* Bounds of the model *)

\* number of /api/trim requests in flight in the concurrent specification
NumReqs == 2
\* longest format list the resolver returns in the selector specification
MaxFormats == 3
\* most colon-separated fields of a time string in the parser specification
MaxFields == 3
\* most candidates of one kind in an answer of the probe specification
MaxPerKind == 4

----------------------------------------------------------------------------
(* Program constants *)

MAX_DURATION == 3600
max_attempts == 3
retries == 3
VERIFY_POLLS == 10
MIN_VERIFY_SIZE == 10000
MIN_DELIVER_SIZE == 1000
PROBE_TOP == 3
COMBINED_CEILING == 720

None == "None"

----------------------------------------------------------------------------
(* Character strings *)

Digits == <<"0", "1", "2", "3", "4", "5", "6", "7", "8", "9">>

IsDigit(c) == \E i \in 1..10 : Digits[i] = c

DigitVal(c) == (CHOOSE i \in 1..10 : Digits[i] = c) - 1

IsSpace(c) == c \in {" ", "\t", "\n"}

\* str.strip(): drop leading and trailing whitespace
RECURSIVE LStrip(_)
LStrip(s) == IF s # <<>> /\ IsSpace(Head(s)) THEN LStrip(Tail(s)) ELSE s

RECURSIVE RStrip(_)
RStrip(s) ==
    IF s # <<>> /\ IsSpace(s[Len(s)]) THEN RStrip(SubSeq(s, 1, Len(s) - 1)) ELSE s

Strip(s) == RStrip(LStrip(s))

\* str.split(':'): the fields between the colons
RECURSIVE Split(_, _)
Split(s, cur) ==
    IF s = <<>> THEN <<cur>>
    ELSE IF Head(s) = ":" THEN <<cur>> \o Split(Tail(s), <<>>)
    ELSE Split(Tail(s), Append(cur, Head(s)))

\* str.replace(':', '_')
Replace(s) == [i \in 1..Len(s) |-> IF s[i] = ":" THEN "_" ELSE s[i]]

AllDigits(f) == \A i \in 1..Len(f) : IsDigit(f[i])

\* mutant of ToInt: only the last digit of the field is read
ToIntLastDigit(f) == IF f = <<>> THEN 0 ELSE DigitVal(f[Len(f)])

\* int() of a field of decimal digits
RECURSIVE ToInt(_)
ToInt(f) ==
    IF f = <<>> THEN 0
    ELSE 10 * ToInt(SubSeq(f, 1, Len(f) - 1)) + DigitVal(f[Len(f)])

\* mutant of MatchesTimePattern: fields of digits of any length
MatchesTimePatternAnyLength(s) ==
    LET parts == Split(s, <<>>) IN
    /\ Len(parts) \in {2, 3}
    /\ \A i \in 1..Len(parts) : parts[i] # <<>> /\ AllDigits(parts[i])

\* re.match(r'^\d{1,2}:\d{2}(:\d{2})?$', s)
MatchesTimePattern(s) ==
    LET parts == Split(s, <<>>) IN
    /\ Len(parts) \in {2, 3}
    /\ Len(parts[1]) \in {1, 2}
    /\ \A i \in 2..Len(parts) : Len(parts[i]) = 2
    /\ \A i \in 1..Len(parts) : AllDigits(parts[i])

\* convert_to_seconds_enhanced: [ok |-> FALSE] stands for the ValueError
convert_to_seconds_enhanced(time_str) ==
    LET s == Strip(time_str)
        parts == Split(s, <<>>)
    IN  IF ~MatchesTimePattern(s) THEN [ok |-> FALSE, val |-> 0]
        ELSE IF Len(parts) = 2 THEN
            LET minutes == ToInt(parts[1])
                seconds == ToInt(parts[2])
            IN  IF minutes >= 60 \/ seconds >= 60 THEN [ok |-> FALSE, val |-> 0]
                ELSE [ok |-> TRUE, val |-> minutes * 60 + seconds]
        ELSE
            LET hours == ToInt(parts[1])
                minutes == ToInt(parts[2])
                seconds == ToInt(parts[3])
            IN  IF minutes >= 60 \/ seconds >= 60 THEN [ok |-> FALSE, val |-> 0]
                ELSE [ok |-> TRUE, val |-> hours * 3600 + minutes * 60 + seconds]

----------------------------------------------------------------------------
(* Texts searched for keywords: exception messages and ffmpeg's stderr *)

\* str.lower() on the words that occur in the modelled texts
Lower(w) ==
    CASE w = "HTTP" -> "http"
      [] w = "Error" -> "error"
      [] w = "Too Many Requests" -> "too many requests"
      [] w = "Video" -> "video"
      [] w = "Unavailable" -> "unavailable"
      [] w = "Sign" -> "sign"
      [] w = "HTTP error" -> "http error"
      [] w = "Connection" -> "connection"
      [] w = "Invalid" -> "invalid"
      [] OTHER -> w

\* keyword in text.lower()
Contains(text, keyword) == \E i \in 1..Len(text) : Lower(text[i]) = keyword

\* '429' in error_msg or 'too many requests' in error_msg
IsRateLimit(error_msg) ==
    Contains(error_msg, "429") \/ Contains(error_msg, "too many requests")

\* 'unavailable' in error_msg
IsUnavailable(error_msg) == Contains(error_msg, "unavailable")

NetworkKeywords ==
    {"http error", "connection", "timeout", "network", "error number -138"}

\* any(keyword in stderr_lower for keyword in [...]); a stderr of None reads ""
IsNetworkError(stderr) == \E k \in NetworkKeywords : Contains(stderr, k)

----------------------------------------------------------------------------
(* Stream candidates (the resolver's format dictionaries) *)

Fmt(u, vc, ac, e, h, f, t, a, sr) ==
    [url |-> u, vcodec |-> vc, acodec |-> ac, ext |-> e,
     height |-> h, fps |-> f, tbr |-> t, abr |-> a, asr |-> sr]

IsVideoOnly(f) == f.vcodec # "none" /\ f.acodec = "none" /\ f.url # None

IsAudioOnly(f) == f.acodec # "none" /\ f.vcodec = "none" /\ f.url # None

IsCombined(f) == f.vcodec # "none" /\ f.acodec # "none" /\ f.url # None

\* [f for f in formats if ...], in the order of formats
VideoFormats(formats) == SelectSeq(formats, IsVideoOnly)

AudioFormats(formats) == SelectSeq(formats, IsAudioOnly)

CombinedFormats(formats) == SelectSeq(formats, IsCombined)

\* Python's ordering of tuples of numbers
RECURSIVE TupleGT(_, _)
TupleGT(a, b) ==
    IF a = <<>> \/ b = <<>> THEN Len(a) > Len(b)
    ELSE IF Head(a) # Head(b) THEN Head(a) > Head(b)
    ELSE TupleGT(Tail(a), Tail(b))

VideoKey(f) == <<IF f.ext = "mp4" THEN 1 ELSE 0, f.height, f.fps, f.tbr>>

AudioKey(f) == <<IF f.ext = "m4a" THEN 1 ELSE 0, f.abr>>

\* list.sort(key=..., reverse=True), keys[i] being the key of s[i]: descending
\* by key and stable, so that candidates with equal keys keep the order the
\* resolver listed them in
SortDesc(s, keys) ==
    LET Before(j, i) ==
            \/ TupleGT(keys[j], keys[i])
            \/ ~TupleGT(keys[i], keys[j]) /\ j < i
        Rank(i) == Cardinality({j \in 1..Len(s) : Before(j, i)}) + 1
    IN  [k \in 1..Len(s) |-> s[CHOOSE i \in 1..Len(s) : Rank(i) = k]]

SortVideo(video_formats) ==
    SortDesc(video_formats,
             [i \in 1..Len(video_formats) |-> VideoKey(video_formats[i])])

SortAudio(audio_formats) ==
    SortDesc(audio_formats,
             [i \in 1..Len(audio_formats) |-> AudioKey(audio_formats[i])])

\* best_combined: the first combined format, in the resolver's order, whose
\* height is at most 720, and the first format of all when there is none
BestCombined(combined_formats) ==
    LET low == {i \in 1..Len(combined_formats) :
                    combined_formats[i].height <= COMBINED_CEILING}
    IN  IF low = {} THEN combined_formats[1]
        ELSE combined_formats[CHOOSE i \in low : \A j \in low : i <= j]

----------------------------------------------------------------------------
(* The state of one /api/trim request: the locals of trim_video_endpoint   *)
(* and of the functions it calls.  An absent or empty request field, and   *)
(* an unset tuple-valued local, is the empty tuple.  attempt is the loop   *)
(* variable of the retry loop that is running, the resolver's or the       *)
(* executor's; info tells whether the resolver has answered; formats and   *)
(* duration are info['formats'] and info['duration'].                      *)

Missing == <<>>

\* info.get('duration', 0): the key may be absent, or present with None
DurAbsent == [key |-> FALSE, null |-> FALSE, val |-> 0]

DurNull == [key |-> TRUE, null |-> TRUE, val |-> 0]

DurOf(n) == [key |-> TRUE, null |-> FALSE, val |-> n]

NewReq ==
    [pc |-> "idle", url |-> Missing, start_time |-> Missing, end_time |-> Missing,
     start_seconds |-> 0, end_seconds |-> 0,
     attempt |-> 0, info |-> FALSE, formats |-> <<>>, duration |-> DurAbsent, probe_idx |-> 0,
     video_formats |-> <<>>, audio_formats |-> <<>>,
     validated_video |-> <<>>, validated_audio |-> <<>>,
     video_url |-> None, audio_url |-> None,
     output_path |-> <<>>, command |-> <<>>, verify_attempt |-> 0,
     status |-> 0, error |-> None]

\* What has happened in a request so far: the resolver queries it made and
\* how many of the loop's queries raised, whether get_enhanced_streams
\* returned, the probes, the urls probed and those among them that answered
\* 200, the ffmpeg runs, how the last one ended ("exit0",
\* "timeout", "network" for a failure with a network-class stderr, "failed" or
\* "exception") and how many resolver queries had been made when it started
\* (queries_at_run), how many of the runs failed with a
\* network-class stderr and how many exited with 0 and failed every poll, what
\* the executor returned, the deletions scheduled and the size of the file sent
NewHist ==
    [nResolver |-> 0, nRaised |-> 0, resolved |-> FALSE,
     nProbe |-> 0, probed |-> {}, answered_200 |-> {},
     nFfmpeg |-> 0, last_run |-> "none", queries_at_run |-> 0,
     nNetwork |-> 0, nUnverified |-> 0,
     trim_result |-> "none", nScheduled |-> 0, delivered |-> -1]

\* return jsonify({'error': error}), status
Respond(q, status, error) ==
    [q EXCEPT !.pc = "done", !.status = status, !.error = error]

\* re.match(r'^(https?\:\/\/)?(www\.youtube\.com|youtu\.?be)\/.+', url), on a
\* url given as <<scheme, host, rest>>
IsYoutubeUrl(url) ==
    /\ url[1] \in {"", "http://", "https://"}
    /\ url[2] \in {"www.youtube.com", "youtu.be", "youtube"}
    /\ Len(url[3]) >= 2
    /\ url[3][1] = "/"
    /\ url[3][2] # "\n"

\* mutant of EndNotAfterStart: an empty range is let through
EndNotAfterStartStrict(start_seconds, end_seconds) == end_seconds < start_seconds

\* if end_seconds <= start_seconds
EndNotAfterStart(start_seconds, end_seconds) == end_seconds <= start_seconds

\* mutant of DurationTooLong: a range of exactly one hour is rejected
DurationTooLongOffByOne(duration) == duration >= MAX_DURATION

\* if duration > 3600
DurationTooLong(duration) == duration > MAX_DURATION

\* trim_video_endpoint up to the call of get_enhanced_streams
ValidateRequest(q) ==
    IF q.url = Missing \/ q.start_time = Missing \/ q.end_time = Missing
    THEN Respond(q, 400, "Missing required parameters")
    ELSE IF ~IsYoutubeUrl(q.url) THEN Respond(q, 400, "Invalid YouTube URL")
    ELSE
        LET s == convert_to_seconds_enhanced(q.start_time)
            e == convert_to_seconds_enhanced(q.end_time)
        IN  IF ~s.ok \/ ~e.ok
            THEN Respond(q, 400, "Invalid time format. Use mm:ss or hh:mm:ss")
            ELSE IF EndNotAfterStart(s.val, e.val)
            THEN Respond(q, 400, "End time must be after start time")
            ELSE IF DurationTooLong(e.val - s.val)
            THEN Respond(q, 400, "Maximum duration is 1 hour")
            ELSE [q EXCEPT !.start_seconds = s.val, !.end_seconds = e.val,
                           !.pc = "resolve", !.attempt = 0]

\* os.path.join(TEMP_FOLDER, f"Ripedly_{safe_start}_to_{safe_end}.mp4")
OutputPath(start_time, end_time) ==
    <<"temp", "/", "Ripedly_">> \o Replace(start_time) \o <<"_to_">>
        \o Replace(end_time) \o <<".mp4">>

\* str() of a natural number: its decimal digits
RECURSIVE Str(_)
Str(n) ==
    IF n < 10 THEN <<Digits[n + 1]>>
    ELSE Str(n \div 10) \o <<Digits[(n % 10) + 1]>>

\* mutant of AudioMap: the audio is always taken from the first input
AudioMapFirstInput(video_url, audio_url) == <<"0:a:0">>

\* ('1:a:0' if video_url != audio_url else '0:a:0')
AudioMap(video_url, audio_url) ==
    IF video_url # audio_url THEN <<"1:a:0">> ELSE <<"0:a:0">>

\* The argument list trim_video_with_perfect_sync builds before its loop, each
\* argument a tuple: one string for a literal or a url, the digits for a
\* number, the path for the output.  The options that are the same in every
\* command are left out but for -y.
BuildCommand(video_url, audio_url, start_time, end_time, output_path) ==
    LET duration == end_time - start_time IN
    <<<<"ffmpeg">>, <<"-y">>,
      <<"-ss">>, Str(start_time), <<"-i">>, <<video_url>>, <<"-t">>, Str(duration)>>
    \o (IF video_url # audio_url
        THEN <<<<"-ss">>, Str(start_time), <<"-i">>, <<audio_url>>,
               <<"-t">>, Str(duration)>>
        ELSE <<>>)
    \o <<<<"-map">>, <<"0:v:0">>, <<"-map">>, AudioMap(video_url, audio_url),
          <<"-c:v">>, <<"libx264">>, <<"-c:a">>, <<"aac">>, output_path>>

\* trim_video_endpoint from the return of get_enhanced_streams to the call
\* of trim_video_with_perfect_sync and the command it builds.  Comparing
\* end_seconds with a duration of None raises TypeError, which the except
\* clause answers with 500.
AfterResolve(q) ==
    IF q.video_url \in {None, ""} \/ q.audio_url \in {None, ""}
    THEN Respond(q, 500, "Could not extract suitable streams")
    ELSE IF q.duration.null
    THEN Respond(q, 500, "Failed to extract stream URLs")
    ELSE IF q.end_seconds > q.duration.val
    THEN Respond(q, 400, "End time exceeds video duration")
    ELSE [q EXCEPT !.output_path = OutputPath(q.start_time, q.end_time),
                   !.command = BuildCommand(q.video_url, q.audio_url,
                                            q.start_seconds, q.end_seconds,
                                            OutputPath(q.start_time, q.end_time)),
                   !.formats = <<>>, !.video_formats = <<>>,
                   !.audio_formats = <<>>,
                   !.validated_video = <<>>, !.validated_audio = <<>>,
                   !.probe_idx = 0, !.pc = "ffmpeg", !.attempt = 0]

----------------------------------------------------------------------------
(* get_enhanced_streams *)

\* An exception that leaves get_enhanced_streams is caught by the except
\* clause of trim_video_endpoint, which answers 500
SelectorRaises(q) == Respond(q, 500, "Failed to extract stream URLs")

\* the end of one pass of "for attempt in range(max_attempts)" that neither
\* broke out nor raised: the next pass, or the query with minimal options
NextResolverAttempt(q) ==
    IF q.attempt + 1 < max_attempts
    THEN [q EXCEPT !.attempt = @ + 1]
    ELSE [q EXCEPT !.attempt = @ + 1, !.pc = "minimal"]

\* the except clause of the resolver loop: a rate-limit error sleeps and goes
\* on whatever the attempt; the other errors raise on the last attempt
ResolverFailed(q, error_msg) ==
    IF IsRateLimit(error_msg) THEN NextResolverAttempt(q)
    ELSE IF IsUnavailable(error_msg)
    THEN IF q.attempt < max_attempts - 1 THEN NextResolverAttempt(q)
         ELSE SelectorRaises(q)
    ELSE IF q.attempt < max_attempts - 1 THEN NextResolverAttempt(q)
         ELSE SelectorRaises(q)

\* mutant of UseCombined: the combined formats are tried first in every case
UseCombinedAlways(video_formats, audio_formats) == TRUE

\* "if not video_formats or not audio_formats": the combined formats are tried
UseCombined(video_formats, audio_formats) ==
    video_formats = <<>> \/ audio_formats = <<>>

\* mutant of ReturnCombined: the audio url is left unset
ReturnCombinedSplit(q, best_combined) ==
    [q EXCEPT !.video_url = best_combined.url, !.audio_url = None,
              !.pc = "selected"]

\* return best_combined['url'], best_combined['url'], info
ReturnCombined(q, best_combined) ==
    [q EXCEPT !.video_url = best_combined.url, !.audio_url = best_combined.url,
              !.pc = "selected"]

\* get_enhanced_streams from the resolver's answer to the first probe: the
\* three format lists, the combined fallback and the two sorts
SelectFromInfo(q, info) ==
    LET video_formats == VideoFormats(info.formats)
        audio_formats == AudioFormats(info.formats)
        combined_formats == CombinedFormats(info.formats)
        got == [q EXCEPT !.info = TRUE, !.formats = info.formats,
                         !.duration = info.duration]
    IN  IF UseCombined(video_formats, audio_formats) /\ combined_formats # <<>>
        THEN ReturnCombined(got, BestCombined(combined_formats))
        ELSE IF video_formats = <<>> \/ audio_formats = <<>>
        THEN SelectorRaises(got)
        ELSE [got EXCEPT !.video_formats = SortVideo(video_formats),
                         !.audio_formats = SortAudio(audio_formats),
                         !.probe_idx = 0, !.pc = "probe_video"]

\* one pass of the resolver loop: ydl.extract_info returns info or raises
ResolverOutcome(q, o) ==
    IF o.ok THEN SelectFromInfo(q, o.info) ELSE ResolverFailed(q, o.error)

\* the query with minimal options after the loop left info at None
MinimalOutcome(q, o) ==
    IF o.ok THEN SelectFromInfo(q, o.info) ELSE SelectorRaises(q)

Min(a, b) == IF a < b THEN a ELSE b

\* mutant of ReturnSeparate: the first candidates of the two lists, validated
\* or not
ReturnSeparateFirst(q) ==
    [q EXCEPT !.video_url = q.video_formats[1].url,
              !.audio_url = q.audio_formats[1].url,
              !.pc = "selected"]

\* best_video_format = validated_video or video_formats[0], and the same for
\* audio; return best_video_format['url'], best_audio_format['url'], info
ReturnSeparate(q) ==
    LET best_video_format ==
            IF q.validated_video # <<>> THEN q.validated_video[1]
            ELSE q.video_formats[1]
        best_audio_format ==
            IF q.validated_audio # <<>> THEN q.validated_audio[1]
            ELSE q.audio_formats[1]
    IN  [q EXCEPT !.video_url = best_video_format.url,
                  !.audio_url = best_audio_format.url,
                  !.pc = "selected"]

\* one pass of "for video_format in video_formats[:3]": status is the HEAD
\* request's answer, "200", "other" for another status, "error" for a raise
ProbeVideoOutcome(q, status) ==
    IF status = "200"
    THEN [q EXCEPT !.validated_video = <<q.video_formats[q.probe_idx + 1]>>,
                   !.probe_idx = 0, !.pc = "probe_audio"]
    ELSE IF q.probe_idx + 1 < Min(PROBE_TOP, Len(q.video_formats))
    THEN [q EXCEPT !.probe_idx = @ + 1]
    ELSE [q EXCEPT !.probe_idx = 0, !.pc = "probe_audio"]

\* one pass of "for audio_format in audio_formats[:3]", and the return
ProbeAudioOutcome(q, status) ==
    IF status = "200"
    THEN ReturnSeparate(
            [q EXCEPT !.validated_audio = <<q.audio_formats[q.probe_idx + 1]>>])
    ELSE IF q.probe_idx + 1 < Min(PROBE_TOP, Len(q.audio_formats))
    THEN [q EXCEPT !.probe_idx = @ + 1]
    ELSE ReturnSeparate(q)

----------------------------------------------------------------------------
(* trim_video_with_perfect_sync and the end of trim_video_endpoint *)

\* return False, which trim_video_endpoint answers with 500
TrimReturnsFalse(q) == Respond(q, 500, "Failed to trim video")

\* mutant of NextTrimAttempt: one pass more than retries
NextTrimAttemptOneMore(q) ==
    IF q.attempt + 1 <= retries
    THEN [q EXCEPT !.attempt = @ + 1, !.verify_attempt = 0, !.pc = "ffmpeg"]
    ELSE TrimReturnsFalse(q)

\* the end of one pass of "for attempt in range(retries)" that did not break
\* and did not return: the next pass, or the return False after the loop
NextTrimAttempt(q) ==
    IF q.attempt + 1 < retries
    THEN [q EXCEPT !.attempt = @ + 1, !.verify_attempt = 0, !.pc = "ffmpeg"]
    ELSE TrimReturnsFalse(q)

\* how a run of ffmpeg ended, as the except clauses tell the cases apart
RunKind(o) ==
    IF o.kind = "failed" /\ IsNetworkError(o.stderr) THEN "network" ELSE o.kind

\* mutant of FfmpegOutcome: a timeout ends the loop
FfmpegOutcomeTimeoutFatal(q, o) ==
    IF o.kind = "exit0"
    THEN [q EXCEPT !.verify_attempt = 0, !.pc = "verify"]
    ELSE IF o.kind = "failed" /\ q.attempt < retries - 1 THEN NextTrimAttempt(q)
    ELSE TrimReturnsFalse(q)

\* one subprocess.run(command, timeout=600, check=True): o.kind is "exit0",
\* "timeout" (TimeoutExpired), "failed" (CalledProcessError, with o.stderr)
\* or "exception" (any other exception)
FfmpegOutcome(q, o) ==
    IF o.kind = "exit0"
    THEN [q EXCEPT !.verify_attempt = 0, !.pc = "verify"]
    ELSE IF o.kind = "timeout" THEN NextTrimAttempt(q)
    ELSE IF o.kind = "failed"
    THEN IF IsNetworkError(o.stderr) /\ q.attempt < retries - 1
         THEN NextTrimAttempt(q)
         ELSE IF q.attempt < retries - 1 THEN NextTrimAttempt(q)
         ELSE TrimReturnsFalse(q)
    ELSE TrimReturnsFalse(q)

\* mutant of OutputVerified: any file that exists is accepted
OutputVerifiedLax(exists, file_size) == exists

\* if os.path.exists(output_path) and file_size > 10000
OutputVerified(exists, file_size) == exists /\ file_size > MIN_VERIFY_SIZE

\* mutant of VerifyOutcome: the poll is repeated until the file is there
VerifyOutcomeNoLimit(q, exists, file_size) ==
    IF OutputVerified(exists, file_size) THEN [q EXCEPT !.pc = "check"] ELSE q

\* one pass of "for verify_attempt in range(10)": return True on a file of
\* more than 10000 bytes; after the last pass the attempt has failed
VerifyOutcome(q, exists, file_size) ==
    IF OutputVerified(exists, file_size) THEN [q EXCEPT !.pc = "check"]
    ELSE IF q.verify_attempt + 1 < VERIFY_POLLS
    THEN [q EXCEPT !.verify_attempt = @ + 1]
    ELSE NextTrimAttempt(q)

\* if not os.path.exists(output_path) or os.path.getsize(output_path) < 1000
CheckOutcome(q, exists, file_size) ==
    IF ~exists \/ file_size < MIN_DELIVER_SIZE
    THEN Respond(q, 500, "Generated video file is invalid")
    ELSE [q EXCEPT !.pc = "send"]

\* send_file(output_path): opening a file that is gone raises, and Flask
\* answers an unhandled exception with 500
SendOutcome(q, exists) ==
    IF exists THEN [q EXCEPT !.pc = "done", !.status = 200]
    ELSE Respond(q, 500, "Internal Server Error")

----------------------------------------------------------------------------
(* The scratch directory: files maps each existing path to its size *)

FileExists(path) == path \in DOMAIN files

FileSize(path) == IF FileExists(path) THEN files[path] ELSE 0

\* ffmpeg -y writes the output: size -1 stands for a run that wrote nothing
WriteFile(path, size) ==
    IF size < 0 THEN files
    ELSE [x \in DOMAIN files \cup {path} |-> IF x = path THEN size ELSE files[x]]

\* os.remove(path)
RemoveFile(path) == [x \in DOMAIN files \ {path} |-> files[x]]

----------------------------------------------------------------------------
(* Actions: one per step of a request between two blocking calls *)

Reqs == DOMAIN req

\* a request arrives and is validated
Receive(r, urls, times) ==
    /\ req[r].pc = "idle"
    /\ \E u \in urls, st \in times, et \in times :
         req' = [req EXCEPT ![r] = ValidateRequest(
                    [@ EXCEPT !.url = u, !.start_time = st, !.end_time = et])]
    /\ UNCHANGED <<hist, files, timers>>

\* ydl.extract_info in the resolver loop
ResolverQuery(r, outcomes) ==
    /\ req[r].pc = "resolve"
    /\ \E o \in outcomes :
         /\ req' = [req EXCEPT ![r] = ResolverOutcome(@, o)]
         /\ hist' = [hist EXCEPT ![r].nResolver = @ + 1,
                                 ![r].nRaised = IF o.ok THEN @ ELSE @ + 1]
    /\ UNCHANGED <<files, timers>>

\* ydl.extract_info with the minimal options
MinimalQuery(r, outcomes) ==
    /\ req[r].pc = "minimal"
    /\ \E o \in outcomes : req' = [req EXCEPT ![r] = MinimalOutcome(@, o)]
    /\ hist' = [hist EXCEPT ![r].nResolver = @ + 1]
    /\ UNCHANGED <<files, timers>>

\* the HEAD request for the next video candidate
ProbeVideo(r, statuses) ==
    /\ req[r].pc = "probe_video"
    /\ \E st \in statuses :
         LET url == req[r].video_formats[req[r].probe_idx + 1].url IN
         /\ req' = [req EXCEPT ![r] = ProbeVideoOutcome(@, st)]
         /\ hist' = [hist EXCEPT
                       ![r].nProbe = @ + 1,
                       ![r].probed = @ \cup {url},
                       ![r].answered_200 =
                           IF st = "200" THEN @ \cup {url} ELSE @]
    /\ UNCHANGED <<files, timers>>

\* the HEAD request for the next audio candidate
ProbeAudio(r, statuses) ==
    /\ req[r].pc = "probe_audio"
    /\ \E st \in statuses :
         LET url == req[r].audio_formats[req[r].probe_idx + 1].url IN
         /\ req' = [req EXCEPT ![r] = ProbeAudioOutcome(@, st)]
         /\ hist' = [hist EXCEPT
                       ![r].nProbe = @ + 1,
                       ![r].probed = @ \cup {url},
                       ![r].answered_200 =
                           IF st = "200" THEN @ \cup {url} ELSE @]
    /\ UNCHANGED <<files, timers>>

\* get_enhanced_streams has returned: the stream and duration checks
Resolved(r) ==
    /\ req[r].pc = "selected"
    /\ req' = [req EXCEPT ![r] = AfterResolve(@)]
    /\ hist' = [hist EXCEPT ![r].resolved = TRUE]
    /\ UNCHANGED <<files, timers>>

\* one run of ffmpeg
RunFfmpeg(r, outcomes) ==
    /\ req[r].pc = "ffmpeg"
    /\ \E o \in outcomes :
         LET q == FfmpegOutcome(req[r], o) IN
         /\ req' = [req EXCEPT ![r] = q]
         /\ files' = WriteFile(req[r].output_path, o.wrote)
         /\ hist' = [hist EXCEPT
                       ![r].nFfmpeg = @ + 1,
                       ![r].last_run = RunKind(o),
                       ![r].queries_at_run = hist[r].nResolver,
                       ![r].nNetwork =
                           IF o.kind = "failed" /\ IsNetworkError(o.stderr)
                           THEN @ + 1 ELSE @,
                       ![r].trim_result = IF q.pc = "done" THEN "false" ELSE @]
    /\ UNCHANGED timers

\* one poll of the output file after ffmpeg exited with 0
VerifyPoll(r) ==
    LET path == req[r].output_path
        q == VerifyOutcome(req[r], FileExists(path), FileSize(path))
    IN  /\ req[r].pc = "verify"
        /\ req' = [req EXCEPT ![r] = q]
        /\ hist' = [hist EXCEPT
                      ![r].nUnverified =
                          IF q.pc \in {"ffmpeg", "done"} THEN @ + 1 ELSE @,
                      ![r].trim_result =
                          IF q.pc = "check" THEN "true"
                          ELSE IF q.pc = "done" THEN "false" ELSE @]
        /\ UNCHANGED <<files, timers>>

\* the output check of trim_video_endpoint and schedule_file_deletion
CheckOutput(r) ==
    LET path == req[r].output_path
        q == CheckOutcome(req[r], FileExists(path), FileSize(path))
    IN  /\ req[r].pc = "check"
        /\ req' = [req EXCEPT ![r] = q]
        /\ IF q.pc = "send"
           THEN /\ timers' = timers \cup {[owner |-> r, path |-> path]}
                /\ hist' = [hist EXCEPT ![r].nScheduled = @ + 1]
           ELSE UNCHANGED <<timers, hist>>
        /\ UNCHANGED files

\* send_file
SendFile(r) ==
    LET path == req[r].output_path IN
    /\ req[r].pc = "send"
    /\ req' = [req EXCEPT ![r] = SendOutcome(@, FileExists(path))]
    /\ hist' = [hist EXCEPT
                  ![r].delivered = IF FileExists(path) THEN files[path] ELSE @]
    /\ UNCHANGED <<files, timers>>

\* delete_later, once its sleep is over
DeleteLater ==
    \E t \in timers :
        /\ timers' = timers \ {t}
        /\ files' = IF FileExists(t.path) THEN RemoveFile(t.path) ELSE files
        /\ UNCHANGED <<req, hist>>

----------------------------------------------------------------------------
(* The inputs and the answers of the outside world *)

YoutubeUrl(id) == <<"https://", "www.youtube.com", <<"/", "w", id>>>>

OtherUrl == <<"https://", "vimeo.com", <<"/", "1">>>>

T_0_00 == <<"0", "0", ":", "0", "0">>
T_0_10 == <<"0", "0", ":", "1", "0">>
T_0_40 == <<"0", "0", ":", "4", "0">>
T_0_40_padded == <<" ", "0", "0", ":", "4", "0">>
T_1_00_00 == <<"1", ":", "0", "0", ":", "0", "0">>
T_1_00_01 == <<"1", ":", "0", "0", ":", "0", "1">>
T_1_75 == <<"1", ":", "7", "5">>

Urls == {Missing, YoutubeUrl("A"), OtherUrl}

Times == {Missing, T_0_00, T_0_10, T_0_40, T_0_40_padded, T_1_00_00,
          T_1_00_01, T_1_75}

\* candidates: video-only, audio-only, combined, and one without a url
V1080 == Fmt("v1080", "avc1", "none", "mp4", 1080, 30, 4000, 0, 0)
V2160w == Fmt("v2160w", "vp9", "none", "webm", 2160, 30, 9000, 0, 0)
V720 == Fmt("v720", "avc1", "none", "mp4", 720, 30, 2000, 0, 0)
V480 == Fmt("v480", "avc1", "none", "mp4", 480, 30, 1000, 0, 0)
VNoUrl == Fmt(None, "avc1", "none", "mp4", 1440, 30, 6000, 0, 0)
A128 == Fmt("a128", "none", "mp4a", "m4a", 0, 0, 128, 128, 44100)
A128hi == Fmt("a128hi", "none", "mp4a", "m4a", 0, 0, 128, 128, 48000)
A160w == Fmt("a160w", "none", "opus", "webm", 0, 0, 160, 160, 48000)
C360 == Fmt("c360", "avc1", "mp4a", "mp4", 360, 30, 700, 96, 44100)
C720 == Fmt("c720", "avc1", "mp4a", "mp4", 720, 30, 2200, 128, 44100)
C4320 == Fmt("c4320", "avc1", "mp4a", "mp4", 4320, 30, 9900, 128, 44100)

Pool == {V1080, V2160w, V720, V480, VNoUrl, A128, A128hi, A160w,
         C360, C720, C4320}

\* every list of at most n different candidates
FormatLists(n) ==
    UNION {{s \in [1..k -> Pool] : \A i, j \in 1..k : i # j => s[i] # s[j]} :
           k \in 0..n}

NoInfo == [formats |-> <<>>, duration |-> DurAbsent]

Answer(info) == [ok |-> TRUE, info |-> info, error |-> <<>>]

Raise(error) == [ok |-> FALSE, info |-> NoInfo, error |-> error]

ResolverErrors ==
    {Raise(<<"HTTP", "Error", "429">>), Raise(<<"Video", "Unavailable">>),
     Raise(<<"Sign", "in", "to", "confirm">>)}

ProbeStatuses == {"200", "other", "error"}

Ffmpeg(kind, stderr, wrote) == [kind |-> kind, stderr |-> stderr, wrote |-> wrote]

FfmpegFailures ==
    {Ffmpeg("timeout", <<>>, w) : w \in {-1, 5000}}
    \cup {Ffmpeg("failed", e, w) :
            e \in {<<"HTTP error", "403">>, <<"Invalid", "data">>, <<>>},
            w \in {-1, 5000}}
    \cup {Ffmpeg("exception", <<>>, -1)}

FfmpegOutcomes ==
    {Ffmpeg("exit0", <<>>, w) : w \in {-1, 999, 1000, 10000, 10001}}
    \cup FfmpegFailures

----------------------------------------------------------------------------
(* Spec: one request through the whole of trim_video_endpoint *)

PipelineInfos ==
    {[formats |-> f, duration |-> d] :
        f \in {<<>>, <<C360>>, <<V1080, A128>>, <<C4320, V720, A128, A160w>>},
        d \in {DurAbsent, DurNull, DurOf(30), DurOf(4000)}}

PipelineAnswers == {Answer(i) : i \in PipelineInfos} \cup ResolverErrors

Init ==
    /\ req = [r \in {1} |-> NewReq]
    /\ hist = [r \in {1} |-> NewHist]
    /\ files = <<>>
    /\ timers = {}

Next ==
    \/ \E r \in Reqs : Receive(r, Urls, Times)
    \/ \E r \in Reqs : ResolverQuery(r, PipelineAnswers)
    \/ \E r \in Reqs : MinimalQuery(r, PipelineAnswers)
    \/ \E r \in Reqs : ProbeVideo(r, ProbeStatuses)
    \/ \E r \in Reqs : ProbeAudio(r, ProbeStatuses)
    \/ \E r \in Reqs : Resolved(r)
    \/ \E r \in Reqs : RunFfmpeg(r, FfmpegOutcomes)
    \/ \E r \in Reqs : VerifyPoll(r)
    \/ \E r \in Reqs : CheckOutput(r)
    \/ \E r \in Reqs : SendFile(r)
    \/ DeleteLater

Spec == Init /\ [][Next]_vars

----------------------------------------------------------------------------
(* SpecSel: get_enhanced_streams alone, on every format list *)

SelAnswers ==
    {Answer([formats |-> f, duration |-> DurOf(100)]) : f \in FormatLists(MaxFormats)}
    \cup ResolverErrors

InitSel ==
    /\ req = [r \in {1} |->
                ValidateRequest([NewReq EXCEPT !.url = YoutubeUrl("A"),
                                               !.start_time = T_0_10,
                                               !.end_time = T_0_40])]
    /\ hist = [r \in {1} |-> NewHist]
    /\ files = <<>>
    /\ timers = {}

NextSel ==
    \/ \E r \in Reqs : ResolverQuery(r, SelAnswers)
    \/ \E r \in Reqs : MinimalQuery(r, SelAnswers)
    \/ \E r \in Reqs : ProbeVideo(r, ProbeStatuses)
    \/ \E r \in Reqs : ProbeAudio(r, ProbeStatuses)

SpecSel == InitSel /\ [][NextSel]_vars

----------------------------------------------------------------------------
(* SpecConc: NumReqs requests in flight at once, sharing the scratch       *)
(* directory, against a resolver that answers the first query              *)

\* each client asks for a video of its own
ClientUrl(r) == YoutubeUrl(<<"A", "B", "C", "D">>[r])

ConcStarts == {T_0_10}

ConcEnds == {T_0_40, T_1_00_00}

ConcAnswers == {Answer([formats |-> <<C360>>, duration |-> DurOf(4000)])}

ConcFfmpegOutcomes ==
    {Ffmpeg("exit0", <<>>, 5000), Ffmpeg("exit0", <<>>, 10001)}

\* a request arrives with one of the given start and end times
ReceiveRange(r, urls, starts, ends) ==
    /\ req[r].pc = "idle"
    /\ \E u \in urls, st \in starts, et \in ends :
         req' = [req EXCEPT ![r] = ValidateRequest(
                    [@ EXCEPT !.url = u, !.start_time = st, !.end_time = et])]
    /\ UNCHANGED <<hist, files, timers>>

InitConc ==
    /\ req = [r \in 1..NumReqs |-> NewReq]
    /\ hist = [r \in 1..NumReqs |-> NewHist]
    /\ files = <<>>
    /\ timers = {}

NextConc ==
    \/ \E r \in Reqs : ReceiveRange(r, {ClientUrl(r)}, ConcStarts, ConcEnds)
    \/ \E r \in Reqs : ResolverQuery(r, ConcAnswers)
    \/ \E r \in Reqs : Resolved(r)
    \/ \E r \in Reqs : RunFfmpeg(r, ConcFfmpegOutcomes)
    \/ \E r \in Reqs : VerifyPoll(r)
    \/ \E r \in Reqs : CheckOutput(r)
    \/ \E r \in Reqs : SendFile(r)
    \/ DeleteLater

SpecConc == InitConc /\ [][NextConc]_vars

----------------------------------------------------------------------------
(* SpecParse: convert_to_seconds_enhanced on every time string of at most  *)
(* MaxFields colon-separated fields, called alone and from the handler     *)

TimeFields ==
    {<<>>, <<"0">>, <<"1">>, <<"1", "2">>, <<"3", "4">>, <<"5", "9">>,
     <<"6", "0">>, <<"7", "5">>, <<"9", "9">>, <<"1", "2", "3">>, <<"1", "a">>}

\* ':'.join(fields)
RECURSIVE Join(_)
Join(fields) ==
    IF Len(fields) = 1 THEN fields[1]
    ELSE fields[1] \o <<":">> \o Join(Tail(fields))

\* the time strings of at most n fields, bare or inside whitespace
TimeInputs(n) ==
    {lead \o Join(fs) \o trail :
        fs \in UNION {[1..k -> TimeFields] : k \in 1..n},
        lead \in {<<>>, <<" ">>}, trail \in {<<>>, <<"\n">>}}

T_99_59_59 == <<"9", "9", ":", "5", "9", ":", "5", "9">>

\* start_seconds = convert_to_seconds_enhanced(start_time), called alone: the
\* value returned, or the ValueError raised
ConvertCall(q) ==
    LET c == convert_to_seconds_enhanced(q.start_time) IN
    IF c.ok THEN [q EXCEPT !.start_seconds = c.val, !.pc = "converted"]
    ELSE [q EXCEPT !.error = "ValueError", !.pc = "raised"]

ConvertTime(r) ==
    /\ req[r].pc = "idle"
    /\ req' = [req EXCEPT ![r] = ConvertCall(@)]
    /\ UNCHANGED <<hist, files, timers>>

InitParse ==
    /\ req \in {[r \in {1} |-> [NewReq EXCEPT !.start_time = t]] :
                    t \in TimeInputs(MaxFields)}
    /\ hist = [r \in {1} |-> NewHist]
    /\ files = <<>>
    /\ timers = {}

NextParse ==
    \/ \E r \in Reqs : ConvertTime(r)
    \/ \E r \in Reqs :
         ReceiveRange(r, {YoutubeUrl("A")}, {req[r].start_time}, {T_99_59_59})

SpecParse == InitParse /\ [][NextParse]_vars

----------------------------------------------------------------------------
(* SpecPair: two executions of the same request side by side.  The resolver *)
(* and ffmpeg give both the same outcome at each call, return or raise,     *)
(* exit or fail, and the same output, and are free in the text of the       *)
(* exception and of stderr.  An execution that makes a call the other does  *)
(* not make gets any outcome.                                               *)

PairAnswers ==
    {Answer([formats |-> <<C360>>, duration |-> d]) : d \in {DurOf(30), DurOf(4000)}}
    \cup ResolverErrors

\* the executions that are at one of the given places
Executing(pcs) == {r \in Reqs : req[r].pc \in pcs}

\* the executions that have not been answered are all about to make the same call
AllAbout(pcs) ==
    /\ Executing(pcs) # {}
    /\ \A r \in Reqs : req[r].pc = "done" \/ r \in Executing(pcs)

\* ydl.extract_info in both executions: the same answer, or an exception in
\* both, each with a message of its own
QueryPair(outcomes) ==
    LET S == Executing({"resolve", "minimal"}) IN
    /\ AllAbout({"resolve", "minimal"})
    /\ \E o \in [S -> outcomes] :
         /\ \A r1, r2 \in S : o[r1].ok = o[r2].ok /\ o[r1].info = o[r2].info
         /\ req' = [r \in Reqs |->
                      IF r \notin S THEN req[r]
                      ELSE IF req[r].pc = "resolve"
                      THEN ResolverOutcome(req[r], o[r])
                      ELSE MinimalOutcome(req[r], o[r])]
         /\ hist' = [r \in Reqs |->
                      IF r \notin S THEN hist[r]
                      ELSE [hist[r] EXCEPT
                              !.nResolver = @ + 1,
                              !.nRaised = IF o[r].ok \/ req[r].pc = "minimal"
                                          THEN @ ELSE @ + 1]]
    /\ UNCHANGED <<files, timers>>

\* one run of ffmpeg in both executions: the same kind of end and the same
\* output, each with a stderr of its own
RunFfmpegPair(outcomes) ==
    LET S == Executing({"ffmpeg"}) IN
    /\ AllAbout({"ffmpeg"})
    /\ \E o \in [S -> outcomes] :
         /\ \A r1, r2 \in S :
               o[r1].kind = o[r2].kind /\ o[r1].wrote = o[r2].wrote
         /\ req' = [r \in Reqs |->
                      IF r \in S THEN FfmpegOutcome(req[r], o[r]) ELSE req[r]]
         /\ \E r \in S : files' = WriteFile(req[r].output_path, o[r].wrote)
         /\ hist' = [r \in Reqs |->
                      IF r \notin S THEN hist[r]
                      ELSE [hist[r] EXCEPT
                              !.nFfmpeg = @ + 1,
                              !.last_run = RunKind(o[r]),
                              !.queries_at_run = hist[r].nResolver,
                              !.nNetwork =
                                  IF o[r].kind = "failed" /\ IsNetworkError(o[r].stderr)
                                  THEN @ + 1 ELSE @,
                              !.trim_result =
                                  IF FfmpegOutcome(req[r], o[r]).pc = "done"
                                  THEN "false" ELSE @]]
    /\ UNCHANGED timers

InitPair ==
    /\ req = [r \in {1, 2} |->
                ValidateRequest([NewReq EXCEPT !.url = YoutubeUrl("A"),
                                               !.start_time = T_0_10,
                                               !.end_time = T_0_40])]
    /\ hist = [r \in {1, 2} |-> NewHist]
    /\ files = <<>>
    /\ timers = {}

NextPair ==
    \/ QueryPair(PairAnswers)
    \/ \E r \in Reqs : Resolved(r)
    \/ RunFfmpegPair(FfmpegOutcomes)
    \/ \E r \in Reqs : VerifyPoll(r)
    \/ \E r \in Reqs : CheckOutput(r)
    \/ \E r \in Reqs : SendFile(r)

SpecPair == InitPair /\ [][NextPair]_vars

----------------------------------------------------------------------------
(* SpecLive: one request in a gunicorn worker, with fairness.  A handler    *)
(* that can take a step takes it, and a deletion thread whose sleep is over *)
(* runs, as long as the worker process lives.  src/gunicorn.conf.py has the *)
(* worker restarted once it has handled max_requests requests; the model    *)
(* starts from a worker that has handled any number of them, so that any    *)
(* request may be its last.                                                 *)

\* The worker process exits between two requests.  The deletion threads are
\* daemon threads (daemon=True), which end with their process.
WorkerExit ==
    /\ \A r \in Reqs : req[r].pc \in {"idle", "done"}
    /\ \E r \in Reqs : req[r].pc = "done"
    /\ timers' = {}
    /\ UNCHANGED <<req, hist, files>>

\* the steps of the handler of request r
Handle(r) ==
    \/ ReceiveRange(r, {YoutubeUrl("A")}, ConcStarts, ConcEnds)
    \/ ResolverQuery(r, ConcAnswers \cup ResolverErrors)
    \/ MinimalQuery(r, ConcAnswers \cup ResolverErrors)
    \/ Resolved(r)
    \/ RunFfmpeg(r, FfmpegOutcomes)
    \/ VerifyPoll(r)
    \/ CheckOutput(r)
    \/ SendFile(r)

NextLive ==
    \/ Handle(1)
    \/ DeleteLater
    \/ WorkerExit

SpecLive ==
    /\ Init /\ [][NextLive]_vars
    /\ WF_vars(Handle(1))
    /\ WF_vars(DeleteLater)

----------------------------------------------------------------------------
(* SpecProbe: get_enhanced_streams on answers with up to MaxPerKind         *)
(* video-only and up to MaxPerKind audio-only candidates, in every order    *)

A96 == Fmt("a96", "none", "mp4a", "m4a", 0, 0, 96, 96, 44100)

ProbeVideos == {V1080, V2160w, V720, V480}

ProbeAudios == {A128, A128hi, A160w, A96}

\* every list of 1 to n different candidates of the set
Arrangements(candidates, n) ==
    UNION {{s \in [1..k -> candidates] : \A i, j \in 1..k : i # j => s[i] # s[j]} :
           k \in 1..n}

ProbeAnswers ==
    {Answer([formats |-> v \o a, duration |-> DurOf(100)]) :
        v \in Arrangements(ProbeVideos, MaxPerKind),
        a \in Arrangements(ProbeAudios, MaxPerKind)}

NextProbe ==
    \/ \E r \in Reqs : ResolverQuery(r, ProbeAnswers)
    \/ \E r \in Reqs : ProbeVideo(r, ProbeStatuses)
    \/ \E r \in Reqs : ProbeAudio(r, ProbeStatuses)

SpecProbe == InitSel /\ [][NextProbe]_vars

----------------------------------------------------------------------------
(* SpecTerm: one request through the whole handler, every external call     *)
(* returning with any of its outcomes; the sync worker keeps executing the  *)
(* handler it has started, which is the fairness of Serve                   *)

TermAnswers ==
    {Answer([formats |-> f, duration |-> DurOf(4000)]) :
        f \in {<<C360>>, <<V720, V480, A128, A160w>>}}
    \cup ResolverErrors

\* the steps of the handler of request r, the probes included
Serve(r) ==
    \/ ReceiveRange(r, {YoutubeUrl("A")}, ConcStarts, ConcEnds)
    \/ ResolverQuery(r, TermAnswers)
    \/ MinimalQuery(r, TermAnswers)
    \/ ProbeVideo(r, ProbeStatuses)
    \/ ProbeAudio(r, ProbeStatuses)
    \/ Resolved(r)
    \/ RunFfmpeg(r, FfmpegOutcomes)
    \/ VerifyPoll(r)
    \/ CheckOutput(r)
    \/ SendFile(r)

NextTerm ==
    \/ Serve(1)
    \/ DeleteLater

\* the deletion thread, once started, sleeps and then runs
SpecTerm ==
    /\ Init /\ [][NextTerm]_vars
    /\ WF_vars(Serve(1))
    /\ WF_vars(DeleteLater)

----------------------------------------------------------------------------
(* Properties *)

\* the request's times as the parser reads them
ParsedStart(q) == convert_to_seconds_enhanced(q.start_time)

ParsedEnd(q) == convert_to_seconds_enhanced(q.end_time)

BothTimesParse(q) ==
    /\ q.start_time # Missing /\ q.end_time # Missing
    /\ ParsedStart(q).ok /\ ParsedEnd(q).ok

NoExternalCall(h) == h.nResolver = 0 /\ h.nProbe = 0 /\ h.nFfmpeg = 0

\* C1: a request whose parsed end time is at most its parsed start time is
\* answered 400, and the resolver is never queried, no candidate is probed and
\* ffmpeg is never run for it.
C1_EndNotAfterStartRejected ==
    \A r \in Reqs :
        LET q == req[r] IN
        (q.pc # "idle" /\ BothTimesParse(q)
            /\ ParsedEnd(q).val <= ParsedStart(q).val)
        => (q.pc = "done" /\ q.status = 400 /\ NoExternalCall(hist[r]))

\* C1 witness: a well-formed request with end = start or end < start has
\* been answered "End time must be after start time".
C1_Witness ==
    \E r \in Reqs :
        LET q == req[r] IN
        /\ q.pc = "done" /\ BothTimesParse(q)
        /\ ParsedEnd(q).val <= ParsedStart(q).val
        /\ q.error = "End time must be after start time"
        /\ q.status = 400

\* C2: a request with end - start > 3600 is answered 400 before the resolver
\* is queried, and a request with end - start = 3600 is not answered
\* "Maximum duration is 1 hour": with a well-formed url it reaches the resolver.
C2_DurationCap ==
    \A r \in Reqs :
        LET q == req[r] IN
        (q.pc # "idle" /\ BothTimesParse(q)) =>
            /\ ParsedEnd(q).val - ParsedStart(q).val > 3600
                => (q.pc = "done" /\ q.status = 400 /\ hist[r].nResolver = 0)
            /\ ParsedEnd(q).val - ParsedStart(q).val = 3600
                => /\ q.error # "Maximum duration is 1 hour"
                   /\ (q.url # Missing /\ IsYoutubeUrl(q.url))
                        => (q.pc # "done" \/ hist[r].nResolver > 0)

\* C2 witness: a well-formed request of 3601 seconds has been answered
\* "Maximum duration is 1 hour".
C2_Witness ==
    \E r \in Reqs :
        LET q == req[r] IN
        /\ q.pc = "done" /\ BothTimesParse(q)
        /\ ParsedEnd(q).val - ParsedStart(q).val = 3601
        /\ q.status = 400 /\ q.error = "Maximum duration is 1 hour"
        /\ hist[r].nResolver = 0

\* the end time exceeds the duration the resolver reported; no duration
\* reported is a missing key or a value of None
EndExceedsDuration(q) ==
    ~q.duration.key \/ q.duration.null \/ q.end_seconds > q.duration.val

\* C3: once get_enhanced_streams has returned a selection for a request whose
\* end time exceeds the reported media duration (or none is reported), the
\* request is answered 400 and ffmpeg is never run.
C3_EndBeyondDurationIs400 ==
    \A r \in Reqs :
        LET q == req[r] IN
        (hist[r].resolved /\ EndExceedsDuration(q))
        => (q.pc = "done" /\ q.status = 400 /\ hist[r].nFfmpeg = 0)

\* C4: when each of the 3 passes of the resolver loop raised, the request is
\* answered 500 and ffmpeg is never run.
C4_ThreeFailuresIs500 ==
    \A r \in Reqs :
        hist[r].nRaised >= 3
        => /\ hist[r].nFfmpeg = 0
           /\ req[r].pc = "done" => req[r].status = 500

\* C5: while every run of ffmpeg so far has failed with a network-class
\* stderr the executor goes on to run it again, until it has run it exactly
\* retries times; then it returns False.  It never runs it more often.
C5_NetworkRetryExhaustion ==
    \A r \in Reqs :
        LET q == req[r]
            h == hist[r]
        IN  /\ h.nFfmpeg <= 3
            /\ (h.nFfmpeg > 0 /\ h.nNetwork = h.nFfmpeg /\ h.nFfmpeg < 3)
                => (q.pc = "ffmpeg" /\ h.trim_result = "none")
            /\ h.nNetwork = 3
                => (h.nFfmpeg = 3 /\ h.trim_result = "false" /\ q.pc = "done"
                    /\ q.status = 500)

\* C5 witness: three runs, each failed with a network-class stderr.
C5_Witness ==
    \E r \in Reqs : hist[r].nNetwork = 3 /\ hist[r].trim_result = "false"

\* C6: a poll that finds the output missing or of at most 10000 bytes never
\* returns True; after the tenth such poll of an attempt the executor runs
\* ffmpeg again if an attempt remains and returns False otherwise.
C6_UnverifiedOutputFails ==
    [][\A r \in Reqs :
         LET q == req[r]
             path == q.output_path
             bad == path \notin DOMAIN files \/ files[path] <= 10000
         IN  (q.pc = "verify" /\ req'[r] # q /\ bad) =>
                IF q.verify_attempt < 9
                THEN req'[r].pc = "verify"
                     /\ req'[r].verify_attempt = q.verify_attempt + 1
                     /\ hist'[r].trim_result = "none"
                ELSE IF q.attempt < 2
                THEN req'[r].pc = "ffmpeg" /\ req'[r].attempt = q.attempt + 1
                     /\ hist'[r].trim_result = "none"
                ELSE req'[r].pc = "done" /\ req'[r].status = 500
                     /\ hist'[r].trim_result = "false"]_vars

\* C6 witness: ffmpeg exited with 0 three times, each time every poll found
\* the output missing or too small, and the executor returned False.
C6_Witness ==
    \E r \in Reqs :
        /\ hist[r].nUnverified = 3 /\ hist[r].trim_result = "false"
        /\ req[r].status = 500

InFlight(q) == q.pc \in {"ffmpeg", "verify", "check", "send"}

\* C7: two requests in flight at the same time never have the same output path.
C7_DistinctOutputPaths ==
    \A r1, r2 \in Reqs :
        (r1 # r2 /\ InFlight(req[r1]) /\ InFlight(req[r2]))
        => req[r1].output_path # req[r2].output_path

\* C8: a request answered with the file had its executor return True and was
\* sent a file of at least 10000 bytes.
C8_DeliveredFileIsValid ==
    \A r \in Reqs :
        req[r].status = 200
        => (hist[r].trim_result = "true" /\ hist[r].delivered >= 10000)

\* the candidates with a url
ValidCandidates(formats) == {formats[i] : i \in 1..Len(formats)} \ {f \in Pool : f.url = None}

Muxed(f) == f.vcodec # "none" /\ f.acodec # "none"

\* C9: when every valid candidate of the resolver's answer is combined,
\* get_enhanced_streams returns the url of one combined candidate as both the
\* video and the audio url.
C9_OnlyCombinedGivesCombined ==
    \A r \in Reqs :
        LET q == req[r]
            valid == ValidCandidates(q.formats)
        IN  (q.info /\ valid # {} /\ \A f \in valid : Muxed(f))
            => /\ q.pc = "selected"
               /\ q.video_url = q.audio_url
               /\ \E f \in valid : f.url = q.video_url

\* C9 witness: a selection from an answer of two combined candidates.
C9_Witness ==
    \E r \in Reqs :
        LET q == req[r]
            valid == ValidCandidates(q.formats)
        IN  /\ q.pc = "selected" /\ Cardinality(valid) >= 2
            /\ \A f \in valid : Muxed(f)
            /\ q.video_url = q.audio_url /\ q.video_url # None

\* C10: when the answer holds a valid video-only and a valid audio-only
\* candidate, get_enhanced_streams does not raise and returns the url of a
\* video-only candidate and the url of an audio-only candidate, never that of a
\* combined one.
C10_SeparatePreferred ==
    \A r \in Reqs :
        LET q == req[r]
            valid == ValidCandidates(q.formats)
            videoOnly == {f \in valid : f.vcodec # "none" /\ f.acodec = "none"}
            audioOnly == {f \in valid : f.vcodec = "none" /\ f.acodec # "none"}
        IN  (q.info /\ videoOnly # {} /\ audioOnly # {})
            => /\ q.pc \in {"probe_video", "probe_audio", "selected"}
               /\ q.pc = "selected"
                    => /\ \E f \in videoOnly : f.url = q.video_url
                       /\ \E f \in audioOnly : f.url = q.audio_url
                       /\ \A f \in valid : Muxed(f) => f.url \notin {q.video_url, q.audio_url}

\* C10 witness: separate streams selected although a combined candidate is
\* higher than every video-only candidate of the answer.
C10_Witness ==
    \E r \in Reqs :
        LET q == req[r]
            valid == ValidCandidates(q.formats)
            videoOnly == {f \in valid : f.vcodec # "none" /\ f.acodec = "none"}
        IN  /\ q.pc = "selected" /\ q.video_url # q.audio_url
            /\ \E c \in valid :
                 Muxed(c) /\ \A f \in videoOnly : c.height > f.height
            /\ \E f \in videoOnly : f.url = q.video_url

----------------------------------------------------------------------------
(* The time format, stated by the positions of the characters *)

AllSpace(s) == \A i \in 1..Len(s) : IsSpace(s[i])

\* s without the whitespace at its two ends: the substrings of s that neither
\* begin nor end with whitespace and have only whitespace before and after
Trimmed(s) ==
    {SubSeq(s, p[1], p[2]) :
        p \in {p \in (1..Len(s) + 1) \X (0..Len(s)) :
                  /\ p[2] >= p[1] - 1
                  /\ AllSpace(SubSeq(s, 1, p[1] - 1))
                  /\ AllSpace(SubSeq(s, p[2] + 1, Len(s)))
                  /\ p[2] >= p[1] => ~IsSpace(s[p[1]]) /\ ~IsSpace(s[p[2]])}}

\* mm:ss or m:ss
IsTwoField(c) ==
    /\ Len(c) \in {4, 5}
    /\ \A i \in 1..Len(c) :
          IF i = Len(c) - 2 THEN c[i] = ":" ELSE IsDigit(c[i])

\* hh:mm:ss or h:mm:ss
IsThreeField(c) ==
    /\ Len(c) \in {7, 8}
    /\ \A i \in 1..Len(c) :
          IF i \in {Len(c) - 2, Len(c) - 5} THEN c[i] = ":" ELSE IsDigit(c[i])

\* the number written at positions i..j of c, of one or two digits
NumberAt(c, i, j) ==
    IF i = j THEN DigitVal(c[i]) ELSE 10 * DigitVal(c[i]) + DigitVal(c[j])

SecondsField(c) == NumberAt(c, Len(c) - 1, Len(c))

MinutesField(c) ==
    IF IsTwoField(c) THEN NumberAt(c, 1, Len(c) - 3)
    ELSE NumberAt(c, Len(c) - 4, Len(c) - 3)

HoursField(c) == NumberAt(c, 1, Len(c) - 6)

\* c matches the pattern and its minutes and seconds are below 60
IsValidTime(c) ==
    /\ IsTwoField(c) \/ IsThreeField(c)
    /\ MinutesField(c) < 60 /\ SecondsField(c) < 60

\* a count of seconds below one hour written as mm:ss
FormatMMSS(n) ==
    <<Digits[(n \div 600) + 1], Digits[((n \div 60) % 10) + 1], ":",
      Digits[((n % 60) \div 10) + 1], Digits[(n % 10) + 1]>>

\* C11: called on a string that, without the whitespace at its ends, matches
\* the pattern with minutes and seconds below 60, convert_to_seconds_enhanced
\* returns minutes*60+seconds for the two-field form and
\* hours*3600+minutes*60+seconds for the three-field form; a result from an
\* mm:ss string, written back as mm:ss, is that string.
C11_ParsesValidTimes ==
    \A r \in Reqs :
        LET q == req[r] IN
        q.pc \in {"converted", "raised"} =>
            \A c \in Trimmed(q.start_time) :
                IsValidTime(c) =>
                    /\ q.pc = "converted"
                    /\ IsTwoField(c) =>
                         q.start_seconds = MinutesField(c) * 60 + SecondsField(c)
                    /\ IsThreeField(c) =>
                         q.start_seconds = HoursField(c) * 3600
                                            + MinutesField(c) * 60 + SecondsField(c)
                    /\ Len(c) = 5 => FormatMMSS(q.start_seconds) = c

\* C11 witness: "12:34" inside whitespace has been converted to 754.
C11_Witness ==
    \E r \in Reqs :
        /\ req[r].pc = "converted"
        /\ req[r].start_time = <<" ">> \o FormatMMSS(754) \o <<"\n">>
        /\ req[r].start_seconds = 754

\* C12: called on a string that violates the pattern or has a minutes or a
\* seconds field of 60 or more, convert_to_seconds_enhanced raises ValueError,
\* whatever the hours field of a three-field string it does not raise for that;
\* a request with such a start time is answered 400, and "Invalid time format"
\* unless the start time is empty, when the handler does not call the function.
C12_RejectsInvalidTimes ==
    \A r \in Reqs :
        LET q == req[r]
            valid == \E c \in Trimmed(q.start_time) : IsValidTime(c)
        IN  /\ q.pc \in {"converted", "raised"} => (q.pc = "raised" <=> ~valid)
            /\ (q.pc \in {"resolve", "done"} /\ ~valid) =>
                    /\ q.pc = "done" /\ q.status = 400
                    /\ q.start_time # Missing =>
                         q.error = "Invalid time format. Use mm:ss or hh:mm:ss"

\* C12 witness: "1:75" as the start time of a request has been answered 400.
C12_Witness ==
    \E r \in Reqs :
        /\ req[r].start_time = T_1_75 /\ req[r].url # Missing
        /\ req[r].pc = "done" /\ req[r].status = 400
        /\ req[r].error = "Invalid time format. Use mm:ss or hh:mm:ss"

\* the stage at which a request failed: its validation, when it was answered
\* before the resolver was queried or when get_enhanced_streams returned two
\* urls and the end time exceeds the reported duration
ValidationFailed(q, h) ==
    \/ h.nResolver = 0
    \/ /\ h.resolved /\ h.nFfmpeg = 0
       /\ q.video_url \notin {None, ""} /\ q.audio_url \notin {None, ""}
       /\ EndExceedsDuration(q)

\* C13: a request that failed was answered 400 when its validation failed
\* (missing field, malformed url or time, end <= start, range over the cap, end
\* beyond the media duration) and 500 when the resolution, the trim or the
\* output check failed.
C13_StatusMatchesStage ==
    \A r \in Reqs :
        LET q == req[r] IN
        (q.pc = "done" /\ q.status # 200) =>
            q.status = IF ValidationFailed(q, hist[r]) THEN 400 ELSE 500

\* C14: two executions of the same request, given the same outcomes by the
\* resolver and by ffmpeg and any exception messages and stderr texts, are
\* answered with the same status and the same error.
C14_ResponseIgnoresDiagnostics ==
    (\A r \in Reqs : req[r].pc = "done") =>
        \A r1, r2 \in Reqs :
            req[r1].status = req[r2].status /\ req[r1].error = req[r2].error

\* C16: a request answered with the file has had the deletion of its output
\* path scheduled exactly once; a deletion is scheduled only after the
\* executor returned True and the output check passed; and once a request is
\* answered with the file, the file is eventually gone from the scratch
\* directory.
C16_DeletionScheduledAndDone ==
    /\ [](LET q == req[1]
              h == hist[1]
          IN  /\ q.status = 200 => h.nScheduled = 1
              /\ h.nScheduled > 0 =>
                    (h.trim_result = "true" /\ q.pc \in {"send", "done"}))
    /\ (req[1].status = 200) ~> ~FileExists(req[1].output_path)

\* the output of request r as a poll sees it: present and above 10000 bytes
SeesValidOutput(r) ==
    /\ req[r].output_path \in DOMAIN files
    /\ files[req[r].output_path] > 10000

\* C17: whatever the outcomes of the runs, ffmpeg is run at most retries
\* times; after a timeout the executor runs it again when fewer than retries
\* runs were made and returns False otherwise; and the executor returns True
\* exactly at a poll that follows a run which exited with 0 and that sees the
\* output above 10000 bytes.
C17_BoundedRetriesAndVerdict ==
    /\ [](\A r \in {1} :
            LET q == req[r]
                h == hist[r]
            IN  /\ h.nFfmpeg <= retries
                /\ h.last_run = "timeout" =>
                      IF h.nFfmpeg < retries
                      THEN q.pc = "ffmpeg" /\ h.trim_result = "none"
                      ELSE q.pc = "done" /\ h.trim_result = "false"
                /\ q.pc = "verify" => h.last_run = "exit0"
                /\ h.trim_result = "true" => h.last_run = "exit0")
    /\ [][\A r \in {1} :
            (hist[r].trim_result # "true" /\ hist'[r].trim_result = "true")
            <=> (req[r].pc = "verify" /\ req'[r] # req[r] /\ SeesValidOutput(r))]_vars

\* C17 witness: the executor returned True on its last run, after a run that
\* exited with 0 and left no valid output and a run that did not exit with 0.
C17_Witness ==
    \E r \in Reqs :
        /\ hist[r].trim_result = "true" /\ hist[r].nFfmpeg = retries
        /\ hist[r].nUnverified = 1

\* C18: in one call of get_enhanced_streams the resolver is queried at most 3
\* times, and not again once 3 queries have raised.
C18_AtMostThreeQueries ==
    \A r \in Reqs :
        /\ hist[r].nResolver <= 3
        /\ hist[r].nRaised >= 3 => req[r].pc = "done"

\* C19: when the executor is about to run ffmpeg again after a run that failed
\* with a network-class stderr, the resolver has been queried since that run
\* started.
C19_NetworkFailureReResolves ==
    \A r \in Reqs :
        (req[r].pc = "ffmpeg" /\ hist[r].last_run = "network")
        => hist[r].nResolver > hist[r].queries_at_run

\* ranked lists the candidates by descending key: keys[i] is the key of
\* ranked[i]
IsRanking(ranked, candidates, keys) ==
    /\ Len(ranked) = Cardinality(candidates)
    /\ {ranked[i] : i \in 1..Len(ranked)} = candidates
    /\ \A i \in 1..Len(ranked) - 1 : ~TupleGT(keys[i + 1], keys[i])

\* the ranks of the candidates probed so far
ProbedRanks(ranked, h) == {i \in 1..Len(ranked) : ranked[i].url \in h.probed}

\* the probes made so far went down the ranking from its top, and not
\* beyond rank 3
ProbedFromTop(ranked, h) == \E k \in 0..3 : ProbedRanks(ranked, h) = 1..k

\* url is the choice the probes command: the highest of the top 3 that
\* answered 200, none below it having been probed, and the top of the ranking
\* when all of the top 3 were probed and none answered 200
IsProbeChoice(url, ranked, h) ==
    LET top == 1..Min(3, Len(ranked))
        ok == {i \in top : ranked[i].url \in h.answered_200}
    IN  IF ok = {}
        THEN ProbedRanks(ranked, h) = top /\ url = ranked[1].url
        ELSE \E m \in ok :
                /\ \A j \in ok : m <= j
                /\ ProbedRanks(ranked, h) = 1..m
                /\ url = ranked[m].url

\* C20: when the answer holds valid video-only and audio-only candidates,
\* get_enhanced_streams ranks each kind, probes each kind from the top of its
\* ranking down, no candidate twice and none below rank 3, never fails for a
\* probe, and returns for each kind the highest of the top 3 that answered
\* 200, or the top of the ranking when none of them did.
C20_ProbesTopThreeInRankOrder ==
    \A r \in Reqs :
        LET q == req[r]
            h == hist[r]
            valid == ValidCandidates(q.formats)
            videoOnly == {f \in valid : f.vcodec # "none" /\ f.acodec = "none"}
            audioOnly == {f \in valid : f.vcodec = "none" /\ f.acodec # "none"}
            vkeys == [i \in 1..Len(q.video_formats) |-> VideoKey(q.video_formats[i])]
            akeys == [i \in 1..Len(q.audio_formats) |-> AudioKey(q.audio_formats[i])]
        IN  (q.info /\ videoOnly # {} /\ audioOnly # {}) =>
                /\ q.pc \in {"probe_video", "probe_audio", "selected"}
                /\ IsRanking(q.video_formats, videoOnly, vkeys)
                /\ IsRanking(q.audio_formats, audioOnly, akeys)
                /\ ProbedFromTop(q.video_formats, h)
                /\ ProbedFromTop(q.audio_formats, h)
                /\ h.nProbe = Cardinality(h.probed)
                /\ q.pc = "probe_video" => ProbedRanks(q.audio_formats, h) = {}
                /\ q.pc = "selected" =>
                      /\ IsProbeChoice(q.video_url, q.video_formats, h)
                      /\ IsProbeChoice(q.audio_url, q.audio_formats, h)

\* C20 witness: of four video candidates the third answered 200 after the
\* first two did not, and of four audio candidates none of the top three
\* answered 200; the third video and the first audio candidate were returned.
C20_Witness ==
    \E r \in Reqs :
        LET q == req[r]
            h == hist[r]
        IN  /\ q.pc = "selected" /\ h.nProbe = 6
            /\ Len(q.video_formats) = 4 /\ Len(q.audio_formats) = 4
            /\ h.answered_200 = {q.video_formats[3].url}
            /\ q.video_url = q.video_formats[3].url
            /\ q.audio_url = q.audio_formats[1].url

\* C21: when get_enhanced_streams returns a selection, the url it returns for
\* the video and the url it returns for the audio have each been probed.
C21_ReturnedCandidatesProbed ==
    \A r \in Reqs :
        req[r].pc = "selected"
        => /\ req[r].video_url \in hist[r].probed
           /\ req[r].audio_url \in hist[r].probed

\* C22: a combined selection is the combined candidate of the greatest height
\* among those of height at most 720 and, when there is none, the combined
\* candidate of the greatest height, whatever the order of the answer.
C22_BestCombinedUnderCeiling ==
    \A r \in Reqs :
        LET q == req[r]
            combined == {f \in ValidCandidates(q.formats) : Muxed(f)}
            low == {f \in combined : f.height <= 720}
            eligible == IF low # {} THEN low ELSE combined
        IN  (q.pc = "selected" /\ q.video_url = q.audio_url) =>
                \E f \in eligible :
                    /\ f.url = q.video_url
                    /\ \A g \in eligible : g.height <= f.height

\* the positions of an argument in a command
Positions(command, arg) == {i \in 1..Len(command) : command[i] = arg}

\* C23: the command has two -map arguments, 0:v:0 and then the audio map.
\* When the video url is the audio url it has one input, that url, and the
\* audio map is 0:a:0; otherwise it has two inputs, the video url and then the
\* audio url, and the audio map is 1:a:0.  Every -i comes after -ss and the
\* start in seconds and before -t and end - start in seconds.
C23_CommandMapsOneVideoOneAudio ==
    \A r \in Reqs :
        LET q == req[r]
            c == q.command
            inputs == Positions(c, <<"-i">>)
            maps == Positions(c, <<"-map">>)
        IN  q.pc \in {"ffmpeg", "verify", "check", "send"} =>
                /\ Cardinality(maps) = 2
                /\ \E m \in maps :
                      /\ maps = {m, m + 2}
                      /\ c[m + 1] = <<"0:v:0">>
                      /\ c[m + 3] = IF q.video_url = q.audio_url
                                    THEN <<"0:a:0">> ELSE <<"1:a:0">>
                      /\ \A i \in inputs : i < m
                /\ IF q.video_url = q.audio_url
                   THEN \E i \in inputs : inputs = {i} /\ c[i + 1] = <<q.video_url>>
                   ELSE \E i, j \in inputs :
                          /\ i < j /\ inputs = {i, j}
                          /\ c[i + 1] = <<q.video_url>>
                          /\ c[j + 1] = <<q.audio_url>>
                /\ \A i \in inputs :
                      /\ c[i - 2] = <<"-ss">>
                      /\ AllDigits(c[i - 1]) /\ ToInt(c[i - 1]) = ParsedStart(q).val
                      /\ c[i + 2] = <<"-t">>
                      /\ AllDigits(c[i + 3])
                      /\ ToInt(c[i + 3]) = ParsedEnd(q).val - ParsedStart(q).val
                /\ c[Len(c)] = q.output_path

\* C23 witness: a command with two inputs for a range of an hour.
C23_Witness ==
    \E r \in Reqs :
        LET q == req[r] IN
        /\ q.pc = "ffmpeg" /\ q.video_url # q.audio_url
        /\ Cardinality(Positions(q.command, <<"-i">>)) = 2
        /\ Positions(q.command, Str(3600)) # {}

\* C24: while a request is between the start of its executor and the delivery
\* of its file, a step that writes or removes the file at its output path is
\* a run of ffmpeg of that request or a deletion that request scheduled.
C24_OutputTouchedByOwnerOnly ==
    [][\A r \in Reqs :
         LET path == req[r].output_path
             changed == \/ (path \in DOMAIN files) # (path \in DOMAIN files')
                        \/ /\ path \in DOMAIN files /\ path \in DOMAIN files'
                           /\ files[path] # files'[path]
         IN  (InFlight(req[r]) /\ changed) =>
                \/ hist'[r].nFfmpeg # hist[r].nFfmpeg
                \/ \E t \in timers \ timers' : t.owner = r]_vars

\* C25: in the ranking of the audio-only candidates, of two candidates equal
\* in container (m4a or not) and in bitrate the one of the higher sample rate
\* comes first, and it is the one returned when it was probed and answered 200.
C25_AudioRankedBySampleRate ==
    \A r \in Reqs :
        LET q == req[r]
            ranked == q.audio_formats
        IN  \A i, j \in 1..Len(ranked) :
                (/\ (ranked[i].ext = "m4a") = (ranked[j].ext = "m4a")
                 /\ ranked[i].abr = ranked[j].abr
                 /\ ranked[i].asr > ranked[j].asr)
                => /\ i < j
                   /\ (q.pc = "selected" /\ ranked[i].url \in hist[r].answered_200)
                        => q.audio_url # ranked[j].url

\* C26: a run of ffmpeg that fails with a stderr that is not network-class
\* while fewer than retries runs were made is followed by another run, with a
\* command that differs from the one that failed; and when the run before it
\* had failed that way too, a run that does not exit with 0 is the last.
C26_RelaxedRetryOnce ==
    [][\A r \in Reqs :
         hist'[r].nFfmpeg = hist[r].nFfmpeg + 1 =>
            /\ (hist'[r].last_run = "failed" /\ hist'[r].nFfmpeg < retries)
                 => (req'[r].pc = "ffmpeg" /\ req'[r].command # req[r].command)
            /\ (hist[r].last_run = "failed" /\ hist'[r].last_run # "exit0")
                 => req'[r].pc = "done"]_vars

C28_OutputNeverLeftBehind ==
    /\ (hist[1].nFfmpeg > 0 /\ FileExists(req[1].output_path))
            ~> ~FileExists(req[1].output_path)
    /\ (hist[1].nFfmpeg > 0) ~> (hist[1].nScheduled > 0)

====
